---- MODULE Spec2Model ----
(***************************************************************************)
(* Model of amplifier_module_hooks_notifications: the NotificationHooks    *)
(* event handler, its dispatch to the external notifier command, and the   *)
(* mount / cleanup registration protocol with the hook coordinator.        *)
(*                                                                         *)
(* A Python str is a sequence of one-character strings, so that slicing,   *)
(* len, lower, replace and concatenation are computed and not assumed.     *)
(***************************************************************************)
EXTENDS Integers, Sequences, FiniteSets, TLC

\* ------------------------------------------------------------------ bounds
\* Handler invocations explored in one behaviour.
MaxCalls == 2
\* Invocations of the cleanup callback explored in one behaviour.
MaxCleanups == 2

\* ------------------------------------------------------- program constants
\* prompt[:60] / len(prompt) > 60 in the session:end branch.
SessionCut == 60
\* prompt[:50] / len(prompt) > 50 in the prompt:submit branch.
PromptCut == 50
\* session_id[:8].
IdCut == 8
\* priority=90 passed to coordinator.hooks.register.
HookPriority == 90

\* ------------------------------------------------------------ Python values
\* A payload value: t is its Python type, s the characters of a str, n the
\* value of an int, m the "message" entry of a dict (<<>> when the dict has
\* no such key, <<v>> when it maps "message" to v).
PyStr(s) == [t |-> "str", s |-> s, n |-> 0, m |-> <<>>]
PyInt(n) == [t |-> "int", s |-> <<>>, n |-> n, m |-> <<>>]
PyNone == [t |-> "none", s |-> <<>>, n |-> 0, m |-> <<>>]
PyDict(m) == [t |-> "dict", s |-> <<>>, n |-> 0, m |-> m]
\* The key is not in the mapping.
Absent == [t |-> "absent", s |-> <<>>, n |-> 0, m |-> <<>>]

\* n copies of character c ("x" * n).
Rep(c, n) == [i \in 1..n |-> c]

\* dict.get(key, default).
Get(data, key, default) == IF data[key].t = "absent" THEN default ELSE data[key]

\* Python truth value of v (`if prompt`, `if not prompt`).
Truthy(v) ==
  CASE v.t = "str" -> v.s # <<>>
    [] v.t = "int" -> v.n # 0
    [] v.t = "dict" -> v.m # <<>>
    [] OTHER -> FALSE

Digit(n) == CASE n = 0 -> "0" [] n = 1 -> "1" [] n = 2 -> "2" [] n = 3 -> "3" [] n = 4 -> "4" [] n = 5 -> "5" [] n = 6 -> "6" [] n = 7 -> "7" [] n = 8 -> "8" [] OTHER -> "9"

\* Decimal digits of a natural number.
RECURSIVE Digits(_)
Digits(n) == IF n < 10 THEN <<Digit(n)>> ELSE Digits(n \div 10) \o <<Digit(n % 10)>>

\* str(v) and the f-string conversion {v}, for str, int and None.
ToStr(v) ==
  CASE v.t = "str" -> v.s
    [] v.t = "int" -> IF v.n < 0 THEN <<"-">> \o Digits(-v.n) ELSE Digits(v.n)
    [] OTHER -> <<"N", "o", "n", "e">>

LowerChar(c) ==
  CASE c = "A" -> "a" [] c = "B" -> "b" [] c = "C" -> "c" [] c = "D" -> "d"
    [] c = "E" -> "e" [] c = "F" -> "f" [] c = "G" -> "g" [] c = "H" -> "h"
    [] c = "I" -> "i" [] c = "J" -> "j" [] c = "K" -> "k" [] c = "L" -> "l"
    [] c = "M" -> "m" [] c = "N" -> "n" [] c = "O" -> "o" [] c = "P" -> "p"
    [] c = "Q" -> "q" [] c = "R" -> "r" [] c = "S" -> "s" [] c = "T" -> "t"
    [] c = "U" -> "u" [] c = "V" -> "v" [] c = "W" -> "w" [] c = "X" -> "x"
    [] c = "Y" -> "y" [] c = "Z" -> "z"
    [] OTHER -> c

\* str.lower().
Lower(s) == [i \in 1..Len(s) |-> LowerChar(s[i])]

\* s[:n].
Prefix(s, n) == SubSeq(s, 1, IF Len(s) < n THEN Len(s) ELSE n)

\* event.replace(':', '_').
ReplaceColon(s) == [i \in 1..Len(s) |-> IF s[i] = ":" THEN "_" ELSE s[i]]

\* `x in list`.
InList(x, list) == \E i \in 1..Len(list) : list[i] = x

\* ------------------------------------------------------------------ events
E_tool_error == <<"t", "o", "o", "l", ":", "e", "r", "r", "o", "r">>
E_session_end == <<"s", "e", "s", "s", "i", "o", "n", ":", "e", "n", "d">>
E_session_start == <<"s", "e", "s", "s", "i", "o", "n", ":", "s", "t", "a", "r", "t">>
E_tool_post == <<"t", "o", "o", "l", ":", "p", "o", "s", "t">>
E_prompt_submit == <<"p", "r", "o", "m", "p", "t", ":", "s", "u", "b", "m", "i", "t">>
E_tool_pre == <<"t", "o", "o", "l", ":", "p", "r", "e">>
\* An event name outside the documented list, with two colons.
E_custom == <<"c", "u", "s", "t", "o", "m", ":", "e", "v", "e", "n", "t", ":", "x">>

\* Event names the coordinator may emit or a caller may pass to handle_event.
Events == {E_tool_error, E_session_end, E_session_start, E_tool_post, E_prompt_submit, E_tool_pre}

\* ----------------------------------------------------------- configuration
\* A config mapping: has_* says whether the key is present.
Config(has_script, script, has_events, events, has_ask, ask) ==
  [has_script |-> has_script, script |-> script, has_events |-> has_events,
   events |-> events, has_ask |-> has_ask, ask |-> ask]

\* `config or {}` of a None config: no key is present.
EmptyConfig == Config(FALSE, <<>>, FALSE, <<>>, FALSE, FALSE)

Configs ==
  { EmptyConfig,
    Config(FALSE, <<>>, TRUE, <<E_tool_post>>, FALSE, FALSE),
    Config(TRUE, <<"/", "b", "i", "n", "/", "n">>, TRUE, <<E_session_start, E_prompt_submit, E_tool_post, E_tool_pre>>, TRUE, FALSE),
    Config(TRUE, <<"n", "t", "f", "y">>, TRUE, <<E_tool_error, E_tool_error, E_custom>>, TRUE, TRUE),
    Config(FALSE, <<>>, TRUE, <<>>, TRUE, FALSE),
    Config(FALSE, <<>>, TRUE, <<E_session_end, E_prompt_submit, E_session_start>>, FALSE, FALSE) }

DefaultScript == <<"n", "o", "t", "i", "f", "y">>
DefaultEvents == <<E_tool_error, E_session_end>>

\* config.get("notify_script", "notify")
ConfigScript(config) == IF config.has_script THEN config.script ELSE DefaultScript
\* config.get("enabled_events", ["tool:error", "session:end"])
ConfigEvents(config) == IF config.has_events THEN config.events ELSE DefaultEvents
\* config.get("notify_on_ask_user", True)
ConfigAsk(config) == IF config.has_ask THEN config.ask ELSE TRUE

\* ---------------------------------------------------------------- payloads
\* The event payload: the six keys the handler reads, each present or Absent.
Payload(tool_name, error, session_id, prompt, parent_prompt, initial_prompt) ==
  [tool_name |-> tool_name, error |-> error, session_id |-> session_id,
   prompt |-> prompt, parent_prompt |-> parent_prompt, initial_prompt |-> initial_prompt]

ToolNames ==
  { Absent, PyStr(<<"B", "a", "s", "h">>), PyStr(<<"A", "s", "k", "U", "s", "e", "r", "Q", "u", "e", "s", "t", "i", "o", "n">>), PyStr(<<"a", "s", "k", "_", "u", "s", "e", "r", "_", "q", "u", "e", "s", "t", "i", "o", "n">>),
    PyStr(<<"A", "S", "K", "-", "U", "S", "E", "R", "-", "Q", "U", "E", "S", "T", "I", "O", "N">>), PyStr(<<"a", "s", "k", " ", "u", "s", "e", "r", " ", "q", "u", "e", "s", "t", "i", "o", "n">>), PyStr(<<>>), PyInt(5), PyNone }

Errors ==
  { Absent, PyDict(<<PyStr(<<"n", "o", "t", " ", "f", "o", "u", "n", "d">>)>>), PyDict(<<>>), PyDict(<<PyInt(42)>>),
    PyStr(<<"b", "o", "o", "m">>), PyInt(5), PyNone }

\* Payloads of tool events: a tool name, or an error with or without one.
ToolPayloads ==
  { Payload(tn, Absent, Absent, Absent, Absent, Absent) : tn \in ToolNames }
  \cup { Payload(tn, er, Absent, Absent, Absent, Absent) : tn \in {Absent, PyStr(<<"B", "a", "s", "h">>)}, er \in Errors }

Prompts ==
  { Absent, PyStr(<<>>), PyStr(<<"f", "i", "x", " ", "t", "h", "e", " ", "b", "u", "g">>), PyStr(Rep("x", PromptCut)), PyStr(Rep("x", PromptCut + 1)),
    PyStr(Rep("y", SessionCut)), PyStr(Rep("y", SessionCut + 1)), PyStr(Rep("z", SessionCut + 20)),
    PyInt(5), PyInt(0), PyNone }

SessionIds == { Absent, PyStr(<<"a", "b", "c", "d", "e", "f", "1", "2", "3", "4">>), PyStr(<<"a", "b", "c">>), PyStr(<<"1", "2", "3", "4", "5", "6", "7", "8">>), PyInt(7), PyNone }

\* Payloads with a prompt, with or without a session id.
PromptPayloads ==
  { Payload(Absent, Absent, sid, p, Absent, Absent) : sid \in {Absent, PyStr(<<"a", "b", "c", "d", "e", "f", "1", "2", "3", "4">>)}, p \in Prompts }

\* Payloads of session:end: a prompt, or a session id alone, or no usable
\* prompt and the two fallback keys.
SessionPayloads ==
  PromptPayloads
  \cup { Payload(Absent, Absent, sid, Absent, Absent, Absent) : sid \in SessionIds }
  \cup { Payload(Absent, Absent, Absent, p, pp, ip) :
           p \in {Absent, PyStr(<<>>)},
           pp \in {Absent, PyStr(<<>>), PyStr(<<"p", "a", "r", "e", "n", "t", " ", "t", "a", "s", "k">>), PyStr(Rep("p", SessionCut + 1))},
           ip \in {Absent, PyStr(<<>>), PyStr(<<"i", "n", "i", "t", "i", "a", "l", " ", "t", "a", "s", "k">>)} }

\* Payloads of the events whose handling reads no payload key.
PlainPayloads ==
  { Payload(Absent, Absent, Absent, Absent, Absent, Absent),
    Payload(PyStr(<<"B", "a", "s", "h">>), Absent, PyStr(<<"a", "b", "c">>), PyStr(<<"f", "i", "x", " ", "t", "h", "e", " ", "b", "u", "g">>), Absent, Absent) }

\* The payloads tried with an event name.
Payloads(event) ==
  CASE event \in {E_tool_error, E_tool_post} -> ToolPayloads
    [] event = E_session_end -> SessionPayloads
    [] event = E_prompt_submit -> PromptPayloads
    [] OTHER -> PlainPayloads

\* ------------------------------------------------- NotificationHooks logic
Built(title, message, priority) ==
  [raised |-> FALSE, title |-> title, message |-> message, priority |-> priority]

\* A TypeError / AttributeError leaves the function: no tuple is returned.
Raised == [raised |-> TRUE, title |-> <<>>, message |-> <<>>, priority |-> <<>>]

\* Mutant of Preview: the cut-off test is off by one (>= for >).
PreviewOffByOne(s, cut) == IF Len(s) >= cut THEN Prefix(s, cut) \o <<".", ".", ".">> ELSE s

\* prompt[:cut] + "..." if len(prompt) > cut else prompt
Preview(s, cut) == IF Len(s) > cut THEN Prefix(s, cut) \o <<".", ".", ".">> ELSE s

\* _build_notification, branch event == "tool:error".
BuildToolError(data) ==
  LET tool_name == Get(data, "tool_name", PyStr(<<"U", "n", "k", "n", "o", "w", "n">>))
      error == Get(data, "error", PyDict(<<>>))
      error_msg == IF error.t = "dict"
                   THEN (IF error.m = <<>> THEN PyStr(<<"U", "n", "k", "n", "o", "w", "n", " ", "e", "r", "r", "o", "r">>) ELSE error.m[1])
                   ELSE PyStr(ToStr(error))
  IN Built(<<"T", "o", "o", "l", " ", "E", "r", "r", "o", "r">>, ToStr(tool_name) \o <<" ", "f", "a", "i", "l", "e", "d", ":", " ">> \o ToStr(error_msg), <<"h", "i", "g", "h">>)

\* The prompt the session:end branch settles on: data["prompt"], and when
\* that is falsy, data.get("parent_prompt", data.get("initial_prompt", "")).
SessionPrompt(data) ==
  LET prompt == Get(data, "prompt", PyStr(<<>>))
  IN IF ~Truthy(prompt)
     THEN Get(data, "parent_prompt", Get(data, "initial_prompt", PyStr(<<>>)))
     ELSE prompt

\* _build_notification, branch event == "session:end".  len() of an int and
\* a slice of an int or of None raise TypeError.
BuildSessionEnd(data) ==
  LET session_id == Get(data, "session_id", PyStr(<<"u", "n", "k", "n", "o", "w", "n">>))
      prompt == SessionPrompt(data)
  IN IF Truthy(prompt)
     THEN (IF prompt.t # "str" THEN Raised
           ELSE Built(<<"S", "e", "s", "s", "i", "o", "n", " ", "C", "o", "m", "p", "l", "e", "t", "e">>, <<"R", "e", ":", " ">> \o Preview(prompt.s, SessionCut), <<"d", "e", "f", "a", "u", "l", "t">>))
     ELSE (IF session_id.t # "str" THEN Raised
           ELSE Built(<<"S", "e", "s", "s", "i", "o", "n", " ", "C", "o", "m", "p", "l", "e", "t", "e">>,
                      <<"S", "e", "s", "s", "i", "o", "n", " ">> \o Prefix(session_id.s, IdCut) \o <<" ", "e", "n", "d", "e", "d">>, <<"d", "e", "f", "a", "u", "l", "t">>))

\* _build_notification, branch event == "tool:post".
BuildToolPost(data) ==
  LET tool_name == Get(data, "tool_name", PyStr(<<"U", "n", "k", "n", "o", "w", "n">>))
  IN Built(<<"T", "o", "o", "l", " ", "C", "o", "m", "p", "l", "e", "t", "e">>, ToStr(tool_name) \o <<" ", "e", "x", "e", "c", "u", "t", "e", "d", " ", "s", "u", "c", "c", "e", "s", "s", "f", "u", "l", "l", "y">>, <<"d", "e", "f", "a", "u", "l", "t">>)

\* _build_notification, branch event == "prompt:submit".  len() of an int or
\* of None raises TypeError.
BuildPromptSubmit(data) ==
  LET prompt == Get(data, "prompt", PyStr(<<>>))
  IN IF prompt.t # "str" THEN Raised
     ELSE Built(<<"U", "s", "e", "r", " ", "I", "n", "p", "u", "t">>, <<"P", "r", "o", "m", "p", "t", ":", " ">> \o Preview(prompt.s, PromptCut), <<"d", "e", "f", "a", "u", "l", "t">>)

\* _build_notification(event, data).
BuildNotification(event, data) ==
  CASE event = E_tool_error -> BuildToolError(data)
    [] event = E_session_end -> BuildSessionEnd(data)
    [] event = E_session_start ->
         Built(<<"S", "e", "s", "s", "i", "o", "n", " ", "S", "t", "a", "r", "t", "e", "d">>, <<"N", "e", "w", " ", "A", "m", "p", "l", "i", "f", "i", "e", "r", " ", "s", "e", "s", "s", "i", "o", "n", " ", "c", "r", "e", "a", "t", "e", "d">>, <<"d", "e", "f", "a", "u", "l", "t">>)
    [] event = E_tool_post -> BuildToolPost(data)
    [] event = E_prompt_submit -> BuildPromptSubmit(data)
    [] OTHER -> Built(<<>>, <<>>, <<"d", "e", "f", "a", "u", "l", "t">>)

AskSpellings == {<<"a", "s", "k", "u", "s", "e", "r", "q", "u", "e", "s", "t", "i", "o", "n">>, <<"a", "s", "k", "_", "u", "s", "e", "r", "_", "q", "u", "e", "s", "t", "i", "o", "n">>, <<"a", "s", "k", "-", "u", "s", "e", "r", "-", "q", "u", "e", "s", "t", "i", "o", "n">>}

\* What handle_event does before it returns or reaches _send_notification:
\* kind "raise" (an exception leaves handle_event), "none" (returns continue
\* without a dispatch) or "send" (calls _send_notification with the triple).
Decision(kind, title, message, priority) ==
  [kind |-> kind, title |-> title, message |-> message, priority |-> priority]

NoTriple == Decision("none", <<>>, <<>>, <<>>)

\* handle_event, the branch `event not in self.enabled_events`.
\* tool_name.lower() of an int or of None raises AttributeError.
HandleNotEnabled(notify_on_ask, event, data) ==
  IF event = E_tool_post /\ notify_on_ask
  THEN LET tool_name == Get(data, "tool_name", PyStr(<<>>))
       IN IF tool_name.t # "str" THEN Decision("raise", <<>>, <<>>, <<>>)
          ELSE IF Lower(tool_name.s) \in AskSpellings
               THEN Decision("send", <<"U", "s", "e", "r", " ", "I", "n", "p", "u", "t", " ", "N", "e", "e", "d", "e", "d">>,
                             <<"A", "m", "p", "l", "i", "f", "i", "e", "r", " ", "i", "s", " ", "w", "a", "i", "t", "i", "n", "g", " ", "f", "o", "r", " ", "y", "o", "u", "r", " ", "i", "n", "p", "u", "t">>, <<"h", "i", "g", "h">>)
               ELSE NoTriple
  ELSE NoTriple

\* handle_event, the branch of an enabled event.
HandleEnabled(event, data) ==
  LET b == BuildNotification(event, data)
  IN IF b.raised THEN Decision("raise", <<>>, <<>>, <<>>)
     ELSE IF b.title # <<>> /\ b.message # <<>>
          THEN Decision("send", b.title, b.message, b.priority)
          ELSE NoTriple

\* handle_event up to its first await.
HandleDecision(enabled, notify_on_ask, event, data) ==
  IF ~InList(event, enabled)
  THEN HandleNotEnabled(notify_on_ask, event, data)
  ELSE HandleEnabled(event, data)

\* Mutant of SendArgv: title and message in the order of the signature.
SendArgvTitleFirst(script, title, message, priority) == <<script, title, message, priority>>

\* The argument vector of create_subprocess_exec in _send_notification.
SendArgv(script, title, message, priority) == <<script, message, title, priority>>

\* Mutant of OnSpawnError: only FileNotFoundError is caught.
OnSpawnErrorOnlyMissing(kind) == IF kind = "missing" THEN "continue" ELSE "raised"

\* What _send_notification's except clauses do with a spawn error of the
\* given kind: both FileNotFoundError and any other Exception are swallowed.
OnSpawnError(kind) == "continue"

\* Mutant of WaitScheduling: `await process.wait()`.
WaitAwaited == "await"

\* asyncio.create_task(process.wait()): the wait is a task of its own
\* ("task"); the handler does not await it ("await").
WaitScheduling == "task"

\* ------------------------------------------------------------------ mount
\* One coordinator.hooks.register call; released counts the calls of the
\* unregister callable it returned.
Reg(event, priority, name) ==
  [event |-> event, handler |-> "handle_event", priority |-> priority, name |-> name, released |-> 0]

\* name=f"notify_{event.replace(':', '_')}"
HandlerName(event) == <<"n", "o", "t", "i", "f", "y", "_">> \o ReplaceColon(event)

\* The loop `for event in enabled_events`: one register call per entry.
EventRegs(events) == [i \in 1..Len(events) |-> Reg(events[i], HookPriority, HandlerName(events[i]))]

\* Mutant of AskRegs: the extra handler is skipped when tool:post is enabled.
AskRegsUnlessEnabled(config) ==
  IF ConfigAsk(config) /\ ~InList(E_tool_post, ConfigEvents(config))
  THEN <<Reg(E_tool_post, HookPriority, <<"n", "o", "t", "i", "f", "y", "_", "a", "s", "k", "_", "u", "s", "e", "r">>)>> ELSE <<>>

\* `if config.get("notify_on_ask_user", True)`: the extra tool:post handler.
AskRegs(config) ==
  IF ConfigAsk(config) THEN <<Reg(E_tool_post, HookPriority, <<"n", "o", "t", "i", "f", "y", "_", "a", "s", "k", "_", "u", "s", "e", "r">>)>> ELSE <<>>

\* Every register call of mount, in call order.
MountRegs(config) == EventRegs(ConfigEvents(config)) \o AskRegs(config)

\* Mutant of MountHandlers: the unregister of the extra tool:post handler is
\* not appended.
MountHandlersDropsAsk(config) == [i \in 1..Len(ConfigEvents(config)) |-> i]

\* The `handlers` list of mount: the unregister callable of every register
\* call, named by the position of its registration.
MountHandlers(config) == [i \in 1..Len(MountRegs(config)) |-> i]

\* cleanup(): `for unregister in handlers: unregister()`.
RECURSIVE ReleaseAll(_, _)
ReleaseAll(reg, hs) ==
  IF hs = <<>> THEN reg
  ELSE ReleaseAll([reg EXCEPT ![Head(hs)].released = @ + 1], Tail(hs))

\* ------------------------------------------------------------------- state
VARIABLES
  mounted,        \* mount has run
  config,         \* the config mapping mount was given
  notify_script,  \* NotificationHooks.notify_script
  enabled_events, \* NotificationHooks.enabled_events
  notify_on_ask,  \* NotificationHooks.notify_on_ask
  registry,       \* the coordinator's registrations, in register order
  handlers,       \* mount's `handlers` list (positions in registry)
  cleanups,       \* times the cleanup callback was invoked
  pc,             \* the running handle_event: "idle", "spawning", "waiting"
  event,          \* event argument of the current / last handle_event call
  data,           \* data argument of the current / last handle_event call
  req,            \* the triple handed to _send_notification in that call
  result,         \* how that call ended: "none" (running), "continue", "raised"
  attempts,       \* create_subprocess_exec calls made in that call
  argv,           \* argument vector of the child that call launched, or <<>>
  queue,          \* handlers the coordinator still has to invoke for the occurrence
  occLaunches,    \* children launched for the current event occurrence
  running,        \* children whose process.wait() task is pending
  nCalls,         \* handle_event calls started
  failures        \* spawn failures so far

vars ==
  <<mounted, config, notify_script, enabled_events, notify_on_ask, registry, handlers,
    cleanups, pc, event, data, req, result, attempts, argv, queue, occLaunches,
    running, nCalls, failures>>

hookVars == <<mounted, config, notify_script, enabled_events, notify_on_ask, registry, handlers, cleanups>>
callVars == <<pc, event, data, req, result, attempts, argv, nCalls>>

NoPayload == Payload(Absent, Absent, Absent, Absent, Absent, Absent)

Init ==
  /\ mounted = FALSE
  /\ config = EmptyConfig
  /\ notify_script = <<>>
  /\ enabled_events = <<>>
  /\ notify_on_ask = FALSE
  /\ registry = <<>>
  /\ handlers = <<>>
  /\ cleanups = 0
  /\ pc = "idle"
  /\ event = <<>>
  /\ data = NoPayload
  /\ req = NoTriple
  /\ result = "none"
  /\ attempts = 0
  /\ argv = <<>>
  /\ queue = 0
  /\ occLaunches = 0
  /\ running = 0
  /\ nCalls = 0
  /\ failures = 0

\* mount(coordinator, config): builds the NotificationHooks and registers.
Mount(c) ==
  /\ ~mounted
  /\ mounted' = TRUE
  /\ config' = c
  /\ notify_script' = ConfigScript(c)
  /\ enabled_events' = ConfigEvents(c)
  /\ notify_on_ask' = ConfigAsk(c)
  /\ registry' = MountRegs(c)
  /\ handlers' = MountHandlers(c)
  /\ UNCHANGED <<cleanups, queue, occLaunches, running, failures>>
  /\ UNCHANGED callVars

\* The callback mount returned is invoked.
Cleanup ==
  /\ mounted
  /\ pc = "idle"
  /\ queue = 0
  /\ cleanups < MaxCleanups
  /\ registry' = ReleaseAll(registry, handlers)
  /\ cleanups' = cleanups + 1
  /\ UNCHANGED <<mounted, config, notify_script, enabled_events, notify_on_ask, handlers>>
  /\ UNCHANGED <<queue, occLaunches, running, failures>>
  /\ UNCHANGED callVars

\* handle_event(e, d) runs to its return, its exception or its first await.
Begin(e, d) ==
  LET dec == HandleDecision(enabled_events, notify_on_ask, e, d)
  IN /\ event' = e
     /\ data' = d
     /\ attempts' = 0
     /\ argv' = <<>>
     /\ nCalls' = nCalls + 1
     /\ req' = dec
     /\ pc' = IF dec.kind = "send" THEN "spawning" ELSE "idle"
     /\ result' = CASE dec.kind = "send" -> "none"
                    [] dec.kind = "raise" -> "raised"
                    [] OTHER -> "continue"

\* Registrations of event e that are still in place.
Live(e) == {i \in 1..Len(registry) : registry[i].event = e /\ registry[i].released = 0}

\* The coordinator emits one occurrence of e and invokes the first of the
\* handlers this module registered for it.
Fire(e, d) ==
  /\ mounted
  /\ pc = "idle"
  /\ queue = 0
  /\ Live(e) # {}
  /\ nCalls + Cardinality(Live(e)) <= MaxCalls
  /\ queue' = Cardinality(Live(e)) - 1
  /\ occLaunches' = 0
  /\ Begin(e, d)
  /\ UNCHANGED <<running, failures>>
  /\ UNCHANGED hookVars

\* The coordinator invokes the next handler registered for the occurrence.
NextHandler ==
  /\ pc = "idle"
  /\ queue > 0
  /\ queue' = queue - 1
  /\ Begin(event, data)
  /\ UNCHANGED <<occLaunches, running, failures>>
  /\ UNCHANGED hookVars

\* handle_event called with an event name whether or not a handler is
\* registered for it.
Call(e, d) ==
  /\ mounted
  /\ pc = "idle"
  /\ queue = 0
  /\ nCalls < MaxCalls
  /\ occLaunches' = 0
  /\ Begin(e, d)
  /\ UNCHANGED <<queue, running, failures>>
  /\ UNCHANGED hookVars

\* create_subprocess_exec completes: the child runs, its wait is scheduled
\* and _send_notification and handle_event return.
SpawnOk ==
  /\ pc = "spawning"
  /\ attempts' = attempts + 1
  /\ argv' = SendArgv(notify_script, req.title, req.message, req.priority)
  /\ running' = running + 1
  /\ occLaunches' = occLaunches + 1
  /\ pc' = IF WaitScheduling = "task" THEN "idle" ELSE "waiting"
  /\ result' = IF WaitScheduling = "task" THEN "continue" ELSE "none"
  /\ UNCHANGED <<event, data, req, nCalls, queue, failures>>
  /\ UNCHANGED hookVars

\* create_subprocess_exec raises: FileNotFoundError ("missing") or another
\* Exception ("other").
SpawnFail(kind) ==
  /\ pc = "spawning"
  /\ attempts' = attempts + 1
  /\ failures' = failures + 1
  /\ pc' = "idle"
  /\ result' = OnSpawnError(kind)
  /\ UNCHANGED <<event, data, req, argv, nCalls, queue, occLaunches, running>>
  /\ UNCHANGED hookVars

\* A child exits and its process.wait() task completes.  A handler that
\* awaited the wait resumes and returns.
ChildExit ==
  /\ running > 0
  /\ running' = running - 1
  /\ pc' = IF pc = "waiting" THEN "idle" ELSE pc
  /\ result' = IF pc = "waiting" THEN "continue" ELSE result
  /\ UNCHANGED <<event, data, req, attempts, argv, nCalls, queue, occLaunches, failures>>
  /\ UNCHANGED hookVars

MountStep == \E c \in Configs : Mount(c)
FireStep == \E e \in Events : \E d \in Payloads(e) : Fire(e, d)
CallStep == \E e \in Events : \E d \in Payloads(e) : Call(e, d)
SpawnFailStep == \E kind \in {"missing", "other"} : SpawnFail(kind)

Next ==
  \/ MountStep
  \/ Cleanup
  \/ FireStep
  \/ NextHandler
  \/ CallStep
  \/ SpawnOk
  \/ SpawnFailStep
  \/ ChildExit

Spec == Init /\ [][Next]_vars

\* The event loop runs a pending create_subprocess_exec to its outcome; a
\* child process is under no obligation to exit.
FairSpec == Spec /\ WF_vars(SpawnOk \/ SpawnFailStep)

\* ------------------------------------------------------------------ claims
\* A handle_event call has ended (returned or raised).
Done == pc = "idle" /\ nCalls > 0

\* The event of the call is in the configured enabled-event set.
EventEnabled == InList(event, ConfigEvents(config))

\* The triple the call handed to _send_notification.
Dispatched == <<req.title, req.message, req.priority>>

\* C1: every handle call, whatever the event name, the configuration and the
\* payload values, ends by returning continue and never by raising.
C1_AlwaysContinue == Done => result = "continue"

\* C2: a call whose launch failed still returns continue after one attempt
\* and launches nothing; and once a launch has failed, every call behaves as
\* the configuration, the event and the payload alone decide: it dispatches
\* exactly when the decision is to send, with the command of the
\* configuration and the triple of the decision.
C2_LaunchFailureSilent ==
  /\ (pc = "idle" /\ attempts > 0 /\ argv = <<>>) => (result = "continue" /\ attempts = 1)
  /\ (Done /\ failures > 0) =>
       LET dec == HandleDecision(ConfigEvents(config), ConfigAsk(config), event, data)
       IN /\ (attempts = 1) = (dec.kind = "send")
          /\ (attempts = 0) = (dec.kind # "send")
          /\ (result = "raised") = (dec.kind = "raise")
          /\ argv # <<>> => argv = <<ConfigScript(config), dec.message, dec.title, dec.priority>>

\* C2 witness: a launch failed in an earlier call and a later call launched
\* its notification and returned continue.
C2_Witness == Done /\ failures > 0 /\ argv # <<>> /\ result = "continue"

\* C3: the handler is never suspended on a child's exit, and a call that
\* has requested a spawn always comes to return continue, although no child
\* is ever obliged to exit.
C3_NeverAwaitsChild ==
  /\ [](pc # "waiting")
  /\ (pc = "spawning") ~> (pc = "idle" /\ result = "continue")

\* C3 witness: two children are still running, neither has exited, and the
\* second call has launched its own notification and returned.
C3_Witness == running = 2 /\ nCalls = 2 /\ pc = "idle" /\ result = "continue" /\ argv # <<>>

\* The AskUserQuestion case of C4: tool:post, notify_on_ask_user true and a
\* tool_name whose lower-cased form is one of the three spellings.
AskUserCase ==
  /\ event = E_tool_post
  /\ ConfigAsk(config)
  /\ data.tool_name.t = "str"
  /\ Lower(data.tool_name.s) \in {<<"a", "s", "k", "u", "s", "e", "r", "q", "u", "e", "s", "t", "i", "o", "n">>, <<"a", "s", "k", "_", "u", "s", "e", "r", "_", "q", "u", "e", "s", "t", "i", "o", "n">>, <<"a", "s", "k", "-", "u", "s", "e", "r", "-", "q", "u", "e", "s", "t", "i", "o", "n">>}

\* C4: a call for an event that is not enabled returns continue, with one
\* dispatch of the fixed triple in the AskUserQuestion case and no dispatch
\* in every other case.
C4_NotEnabledDispatch ==
  (Done /\ ~EventEnabled) =>
    /\ result = "continue"
    /\ IF AskUserCase
       THEN /\ attempts = 1
            /\ Dispatched = <<<<"U", "s", "e", "r", " ", "I", "n", "p", "u", "t", " ", "N", "e", "e", "d", "e", "d">>, <<"A", "m", "p", "l", "i", "f", "i", "e", "r", " ", "i", "s", " ", "w", "a", "i", "t", "i", "n", "g", " ", "f", "o", "r", " ", "y", "o", "u", "r", " ", "i", "n", "p", "u", "t">>, <<"h", "i", "g", "h">>>>
       ELSE attempts = 0

\* C5: after mount and one invocation of the cleanup callback, every
\* registration made during mount has been released exactly once, and the
\* registrations made are one per entry of enabled_events plus the extra
\* tool:post one when notify_on_ask_user is true.
C5_TeardownReleasesAll ==
  cleanups = 1 =>
    /\ \A i \in 1..Len(registry) : registry[i].released = 1
    /\ Len(registry) = Len(ConfigEvents(config)) + (IF ConfigAsk(config) THEN 1 ELSE 0)

\* C5 witness: cleanup ran once over four registrations, two of them for the
\* same event name, one the extra tool:post handler.
C5_Witness ==
  /\ cleanups = 1
  /\ Len(registry) = 4
  /\ registry[1].event = registry[2].event
  /\ registry[4].name = <<"n", "o", "t", "i", "f", "y", "_", "a", "s", "k", "_", "u", "s", "e", "r">>

\* The handler name the claim gives for an event name.
ExpectedName(e) ==
  CASE e = E_tool_error -> <<"n", "o", "t", "i", "f", "y", "_", "t", "o", "o", "l", "_", "e", "r", "r", "o", "r">>
    [] e = E_session_end -> <<"n", "o", "t", "i", "f", "y", "_", "s", "e", "s", "s", "i", "o", "n", "_", "e", "n", "d">>
    [] e = E_session_start -> <<"n", "o", "t", "i", "f", "y", "_", "s", "e", "s", "s", "i", "o", "n", "_", "s", "t", "a", "r", "t">>
    [] e = E_tool_post -> <<"n", "o", "t", "i", "f", "y", "_", "t", "o", "o", "l", "_", "p", "o", "s", "t">>
    [] e = E_prompt_submit -> <<"n", "o", "t", "i", "f", "y", "_", "p", "r", "o", "m", "p", "t", "_", "s", "u", "b", "m", "i", "t">>
    [] e = E_tool_pre -> <<"n", "o", "t", "i", "f", "y", "_", "t", "o", "o", "l", "_", "p", "r", "e">>
    [] e = E_custom -> <<"n", "o", "t", "i", "f", "y", "_", "c", "u", "s", "t", "o", "m", "_", "e", "v", "e", "n", "t", "_", "x">>
    [] OTHER -> <<>>

\* The registrations the claim lists for a configuration.
ExpectedRegs(c) ==
  LET evs == IF c.has_events THEN c.events ELSE <<E_tool_error, E_session_end>>
      ask == IF c.has_ask THEN c.ask ELSE TRUE
  IN [i \in 1..Len(evs) |->
        [event |-> evs[i], handler |-> "handle_event", priority |-> 90, name |-> ExpectedName(evs[i])]]
     \o (IF ask
         THEN <<[event |-> E_tool_post, handler |-> "handle_event", priority |-> 90,
                 name |-> <<"n", "o", "t", "i", "f", "y", "_", "a", "s", "k", "_", "u", "s", "e", "r">>]>>
         ELSE <<>>)

\* C6: the registrations mount made are exactly, and in this order, one per
\* entry of enabled_events (handle, priority 90, name notify_<event with
\* every ':' replaced by '_'>), and then, iff notify_on_ask_user is true,
\* one for tool:post named notify_ask_user.
C6_MountRegistrations ==
  mounted =>
    [i \in 1..Len(registry) |->
       [event |-> registry[i].event, handler |-> registry[i].handler,
        priority |-> registry[i].priority, name |-> registry[i].name]]
    = ExpectedRegs(config)

\* C6 witness: tool:post is enabled and notify_on_ask_user is true, so the
\* event has both its own handler and the extra one.
C6_Witness ==
  /\ mounted
  /\ Len(registry) = 2
  /\ registry[1].event = E_tool_post
  /\ registry[2].event = E_tool_post
  /\ registry[1].name # registry[2].name

\* The prompt preview of the claims: the prompt when it has at most cut
\* characters, else its first cut characters and "...".
ClaimPreview(s, cut) == IF Len(s) <= cut THEN s ELSE SubSeq(s, 1, cut) \o <<".", ".", ".">>

\* The derivation table of C7, with the session:start message as a
\* parameter; an empty title stands for "nothing is dispatched".
Row(e, d, startMessage) ==
  CASE e = E_tool_error ->
         <<<<"T", "o", "o", "l", " ", "E", "r", "r", "o", "r">>,
           (IF d.tool_name.t = "absent" THEN <<"U", "n", "k", "n", "o", "w", "n">> ELSE ToStr(d.tool_name))
           \o <<" ", "f", "a", "i", "l", "e", "d", ":", " ">>
           \o (CASE d.error.t = "absent" -> <<"U", "n", "k", "n", "o", "w", "n", " ", "e", "r", "r", "o", "r">>
                 [] d.error.t = "dict" ->
                      (IF d.error.m = <<>> THEN <<"U", "n", "k", "n", "o", "w", "n", " ", "e", "r", "r", "o", "r">> ELSE ToStr(d.error.m[1]))
                 [] OTHER -> ToStr(d.error)),
           <<"h", "i", "g", "h">>>>
    [] e = E_session_start -> <<<<"S", "e", "s", "s", "i", "o", "n", " ", "S", "t", "a", "r", "t", "e", "d">>, startMessage, <<"d", "e", "f", "a", "u", "l", "t">>>>
    [] e = E_tool_post ->
         <<<<"T", "o", "o", "l", " ", "C", "o", "m", "p", "l", "e", "t", "e">>,
           (IF d.tool_name.t = "absent" THEN <<"U", "n", "k", "n", "o", "w", "n">> ELSE ToStr(d.tool_name))
           \o <<" ", "e", "x", "e", "c", "u", "t", "e", "d", " ", "s", "u", "c", "c", "e", "s", "s", "f", "u", "l", "l", "y">>,
           <<"d", "e", "f", "a", "u", "l", "t">>>>
    [] e = E_prompt_submit ->
         <<<<"U", "s", "e", "r", " ", "I", "n", "p", "u", "t">>,
           <<"P", "r", "o", "m", "p", "t", ":", " ">> \o ClaimPreview(IF d.prompt.t = "str" THEN d.prompt.s ELSE <<>>, 50),
           <<"d", "e", "f", "a", "u", "l", "t">>>>
    [] OTHER -> <<<<>>, <<>>, <<"d", "e", "f", "a", "u", "l", "t">>>>

\* The table holds of an ended call for an enabled event other than
\* session:end: an event outside the table dispatches nothing and returns
\* continue; an event of the table that dispatched did so with its row, and
\* one that returned continue dispatched once.
TableHolds(startMessage) ==
  (Done /\ EventEnabled /\ event # E_session_end) =>
    LET row == Row(event, data, startMessage)
    IN IF row[1] = <<>>
       THEN attempts = 0 /\ result = "continue"
       ELSE /\ attempts > 0 => Dispatched = row
            /\ result = "continue" => attempts = 1

\* C7 as stated: session:start dispatches the message "New session created".
C7_DerivationTableAsStated == TableHolds(<<"N", "e", "w", " ", "s", "e", "s", "s", "i", "o", "n", " ", "c", "r", "e", "a", "t", "e", "d">>)

\* C7 as amended: the table of the claim, except that session:start
\* dispatches the message "New Amplifier session created".
C7_DerivationTable == TableHolds(<<"N", "e", "w", " ", "A", "m", "p", "l", "i", "f", "i", "e", "r", " ", "s", "e", "s", "s", "i", "o", "n", " ", "c", "r", "e", "a", "t", "e", "d">>)

\* C7 witness: an enabled prompt:submit with a prompt longer than the cut
\* was dispatched.
C7_Witness ==
  /\ Done
  /\ EventEnabled
  /\ event = E_prompt_submit
  /\ attempts = 1
  /\ data.prompt.t = "str"
  /\ Len(data.prompt.s) > 50

\* The payload keys session:end reads are absent or strings.
StringFields ==
  \A k \in {"prompt", "parent_prompt", "initial_prompt", "session_id"} : data[k].t \in {"absent", "str"}

\* The first non-empty of prompt, parent_prompt and initial_prompt, or <<>>.
FirstPrompt(d) ==
  CASE d.prompt.s # <<>> -> d.prompt.s
    [] d.parent_prompt.s # <<>> -> d.parent_prompt.s
    [] OTHER -> d.initial_prompt.s

\* C8: an enabled session:end dispatches ("Session Complete", message,
\* "default"), the message being "Re: " and the preview (cut 60) of the
\* prompt, or failing that of parent_prompt or initial_prompt, when one of
\* the three is non-empty, and "Session <first 8 of session_id> ended"
\* (session_id default "unknown") when none is.
C8_SessionEndMessage ==
  (Done /\ EventEnabled /\ event = E_session_end /\ StringFields) =>
    /\ attempts = 1
    /\ Dispatched =
         <<<<"S", "e", "s", "s", "i", "o", "n", " ", "C", "o", "m", "p", "l", "e", "t", "e">>,
           (IF FirstPrompt(data) # <<>>
            THEN <<"R", "e", ":", " ">> \o ClaimPreview(FirstPrompt(data), 60)
            ELSE <<"S", "e", "s", "s", "i", "o", "n", " ">>
                 \o (IF data.session_id.t = "absent" THEN <<"u", "n", "k", "n", "o", "w", "n">>
                     ELSE SubSeq(data.session_id.s, 1,
                                 IF Len(data.session_id.s) < 8 THEN Len(data.session_id.s) ELSE 8))
                 \o <<" ", "e", "n", "d", "e", "d">>),
           <<"d", "e", "f", "a", "u", "l", "t">>>>

\* C9: every child is launched as the configured command (notify_script,
\* default "notify") with three arguments: the message, the title and the
\* priority of the call's dispatch, in that order.
C9_CommandArguments ==
  argv # <<>> =>
    /\ Len(argv) = 4
    /\ argv[1] = (IF config.has_script THEN config.script ELSE <<"n", "o", "t", "i", "f", "y">>)
    /\ <<argv[2], argv[3], argv[4]>> = <<req.message, req.title, req.priority>>
    /\ req.kind = "send"

\* C9 witness: a child was launched under a configured command name.
C9_Witness == pc = "idle" /\ argv # <<>> /\ config.has_script /\ req.title # req.message

\* C10: the handlers the coordinator invokes for one occurrence of an event
\* launch at most one notification between them.
C10_OneLaunchPerOccurrence == occLaunches <= 1
====
